---- MODULE Spec2Model ----
(***************************************************************************)
(* A model of the fallback statement parser of StatementSensei:            *)
(*   webapp/fallback_parsers/pdf_text.py  tokenizer, literal decoder,      *)
(*                                        text interpreter, row grouping   *)
(*   webapp/banks/hlb.py                  HongLeongBankParser.parse        *)
(*                                                                         *)
(* Bytes and characters are their code points (Python's ord); a bytes or   *)
(* str value is a sequence of code points.  Python indexes from 0, TLA+    *)
(* sequences from 1: positions are kept 0-based as in the source and read  *)
(* through At and Slice.  Coordinates (floats in the source) are held in   *)
(* tenths of a unit, so 1.8 is 18 and 700.0 is 7000; amounts are held in   *)
(* hundredths.                                                             *)
(***************************************************************************)
EXTENDS Integers, Sequences, FiniteSets, TLC

VARIABLES
    \* _tokenize_pdf_content_stream / _extract_text_items_from_content_stream
    data,       \* the content-stream buffer
    i,          \* the tokenizer's scan position
    pc,         \* where the generator / the loop body stands
    depth,      \* nesting depth of the literal string or array being scanned
    buf,        \* bytes of the literal string or array collected so far
    tokStart,   \* value of i when the scan of the pending token began
    tok,        \* the token just yielded, not yet taken by the interpreter
    stack,      \* operand stack
    in_text,    \* inside BT .. ET
    x, y,       \* text cursor
    items,      \* TextItems emitted so far
    \* group_text_items_into_rows
    g_items,    \* the fragments given
    g_rows,     \* the rows returned
    gpc,
    \* HongLeongBankParser.parse
    p_items,    \* items, as extract_text_items_from_pdf returned them
    ppc,
    rows, header_y, anchors, ordered_rows,
    ri,         \* position of the for loop in ordered_rows
    transactions, current, result,
    ti,         \* position of the for loop in transactions
    cur_rows, tx_rows, res_from,
    \* _decode_pdf_literal
    d_raw,      \* the raw bytes of a literal string
    d_out,      \* the text returned
    dpc,
    \* _extract_flate_streams
    pdf_bytes,  \* the bytes of the file
    m_from,     \* where re.finditer looks for its next match
    streams,    \* the buffers appended so far
    s_from,     \* history: for each buffer, the end of the marker it came from
    spc

lexVars == <<data, i, pc, depth, buf, tokStart, tok, stack, in_text, x, y, items>>

groupVars == <<g_items, g_rows, gpc>>

parseVars == <<p_items, ppc, rows, header_y, anchors, ordered_rows, ri, transactions,
               current, result, ti, cur_rows, tx_rows, res_from>>

decodeVars == <<d_raw, d_out, dpc>>

streamVars == <<pdf_bytes, m_from, streams, s_from, spc>>

vars == <<lexVars, groupVars, parseVars, decodeVars, streamVars>>

\* what the tokenizer and the interpreter leave alone
OutsideLex == UNCHANGED <<groupVars, parseVars, decodeVars, streamVars>>

----------------------------------------------------------------------------
(* Code points and Python sequence access *)

Ord(c) ==
  CASE c = "A" -> 65 [] c = "B" -> 66 [] c = "C" -> 67 [] c = "D" -> 68
    [] c = "E" -> 69 [] c = "F" -> 70 [] c = "G" -> 71 [] c = "H" -> 72
    [] c = "I" -> 73 [] c = "J" -> 74 [] c = "K" -> 75 [] c = "L" -> 76
    [] c = "M" -> 77 [] c = "N" -> 78 [] c = "O" -> 79 [] c = "P" -> 80
    [] c = "Q" -> 81 [] c = "R" -> 82 [] c = "S" -> 83 [] c = "T" -> 84
    [] c = "U" -> 85 [] c = "V" -> 86 [] c = "W" -> 87 [] c = "X" -> 88
    [] c = "Y" -> 89 [] c = "Z" -> 90 [] c = "a" -> 97 [] c = "b" -> 98
    [] c = "c" -> 99 [] c = "d" -> 100 [] c = "e" -> 101 [] c = "f" -> 102
    [] c = "g" -> 103 [] c = "h" -> 104 [] c = "i" -> 105 [] c = "j" -> 106
    [] c = "k" -> 107 [] c = "l" -> 108 [] c = "m" -> 109 [] c = "n" -> 110
    [] c = "o" -> 111 [] c = "p" -> 112 [] c = "q" -> 113 [] c = "r" -> 114
    [] c = "s" -> 115 [] c = "t" -> 116 [] c = "u" -> 117 [] c = "v" -> 118
    [] c = "w" -> 119 [] c = "x" -> 120 [] c = "y" -> 121 [] c = "z" -> 122
    [] c = "0" -> 48 [] c = "1" -> 49 [] c = "2" -> 50 [] c = "3" -> 51
    [] c = "4" -> 52 [] c = "5" -> 53 [] c = "6" -> 54 [] c = "7" -> 55
    [] c = "8" -> 56 [] c = "9" -> 57 [] c = " " -> 32 [] c = "(" -> 40
    [] c = ")" -> 41 [] c = "[" -> 91 [] c = "]" -> 93 [] c = "<" -> 60
    [] c = ">" -> 62 [] c = "/" -> 47 [] c = "%" -> 37 [] c = "," -> 44
    [] c = "." -> 46 [] c = "-" -> 45 [] c = "+" -> 43 [] c = "_" -> 95
    [] c = ":" -> 58
    [] c = "bs" -> 92 [] c = "lf" -> 10 [] c = "tab" -> 9 [] c = "cr" -> 13

\* the bytes / str written with the characters of cs
T(cs) == [k \in 1..Len(cs) |-> Ord(cs[k])]

At(s, k) == s[k + 1]
Slice(s, a, b) == SubSeq(s, a + 1, b)

RECURSIVE Flatten(_)
Flatten(ss) == IF ss = <<>> THEN <<>> ELSE Head(ss) \o Flatten(Tail(ss))

BACKSLASH == 92
LPAREN == 40
RPAREN == 41
LBRACKET == 91
RBRACKET == 93
PERCENT == 37
SLASH == 47
NEWLINE == 10

IsDigit(c) == c \in 48..57

\* whitespace = b" \t\r\n\x0c\x00"
Whitespace == {32, 9, 13, 10, 12, 0}
\* b"()[]<>{}/%"
Delimiters == {40, 41, 91, 93, 60, 62, 123, 125, 47, 37}
\* what str.strip() removes among the code points below 256
StrWhitespace == {9, 10, 11, 12, 13, 28, 29, 30, 31, 32, 133, 160}

----------------------------------------------------------------------------
(* _NUM_TOKEN_RE and float() *)

RECURSIVE DigitRun(_, _)
\* the number of consecutive digits of s from position k on
DigitRun(s, k) ==
    IF k < Len(s) /\ IsDigit(At(s, k)) THEN 1 + DigitRun(s, k + 1) ELSE 0

RECURSIVE DigitsValue(_, _, _)
\* the value of the n digits of s from position k on
DigitsValue(s, k, n) ==
    IF n = 0 THEN 0
    ELSE DigitsValue(s, k, n - 1) * 10 + (At(s, k + n - 1) - 48)

RECURSIVE Pow10(_)
Pow10(n) == IF n = 0 THEN 1 ELSE 10 * Pow10(n - 1)

\* the pieces of a numeric literal: [+-]? (d+.d* | d*.d+ | d+) ([eE][+-]?d+)?
NumParts(val) ==
    LET signed == Len(val) > 0 /\ At(val, 0) \in {43, 45}
        s  == IF signed THEN 1 ELSE 0
        n1 == DigitRun(val, s)
        dot == s + n1 < Len(val) /\ At(val, s + n1) = 46
        n2 == IF dot THEN DigitRun(val, s + n1 + 1) ELSE 0
        mend == s + n1 + (IF dot THEN 1 + n2 ELSE 0)
        hasExp == mend < Len(val) /\ At(val, mend) \in {69, 101}
        esigned == hasExp /\ mend + 1 < Len(val) /\ At(val, mend + 1) \in {43, 45}
        es == mend + 1 + (IF esigned THEN 1 ELSE 0)
        n3 == IF hasExp THEN DigitRun(val, es) ELSE 0
    IN  [neg |-> signed /\ At(val, 0) = 45, s |-> s, n1 |-> n1, dot |-> dot,
         n2 |-> n2, mend |-> mend, hasExp |-> hasExp,
         eneg |-> esigned /\ At(val, mend + 1) = 45, es |-> es, n3 |-> n3]

\* _NUM_TOKEN_RE.match(val)
NumMatch(val) ==
    LET p == NumParts(val)
    IN  /\ p.n1 + p.n2 >= 1
        /\ IF p.hasExp THEN p.n3 >= 1 /\ p.es + p.n3 = Len(val)
                       ELSE p.mend = Len(val)

\* float(val) in tenths (digits after the first decimal are cut off)
ToFloat(val) ==
    LET p == NumParts(val)
        whole == DigitsValue(val, p.s, p.n1)
        frac == IF p.n2 >= 1 THEN At(val, p.s + p.n1 + 1) - 48 ELSE 0
        mant == whole * 10 + frac
        e == DigitsValue(val, p.es, p.n3)
        mag == IF ~p.hasExp THEN mant
               ELSE IF p.eneg THEN mant \div Pow10(e) ELSE mant * Pow10(e)
    IN  IF p.neg THEN 0 - mag ELSE mag

----------------------------------------------------------------------------
(* _decode_pdf_literal *)

RECURSIVE OctRunAnyLength(_, _, _)
\* OctRun without len(oct_digits) < 3: every octal digit that follows is taken
OctRunAnyLength(raw, j, n) ==
    IF j < Len(raw) /\ At(raw, j) \in 48..55
    THEN OctRunAnyLength(raw, j + 1, n + 1) ELSE n

RECURSIVE OctRun(_, _, _)
\* how many octal digits, at most 3, the escape at position j takes
OctRun(raw, j, n) ==
    IF j < Len(raw) /\ n < 3 /\ At(raw, j) \in 48..55
    THEN OctRun(raw, j + 1, n + 1) ELSE n

RECURSIVE OctValue(_, _, _)
\* int(oct_digits, 8) of the n digits from position j on
OctValue(raw, j, n) ==
    IF n = 0 THEN 0 ELSE OctValue(raw, j, n - 1) * 8 + (At(raw, j + n - 1) - 48)

RECURSIVE DecodeFrom(_, _)
\* the bytes the while loop appends to out from position k on
DecodeFrom(raw, k) ==
    IF k >= Len(raw) THEN <<>>
    ELSE IF At(raw, k) # BACKSLASH THEN <<At(raw, k)>> \o DecodeFrom(raw, k + 1)
    ELSE IF k + 1 >= Len(raw) THEN <<>>
    ELSE LET c2 == At(raw, k + 1)
             n == OctRun(raw, k + 1, 0)
         IN  CASE c2 = 110 -> <<10>> \o DecodeFrom(raw, k + 2)
               [] c2 = 114 -> <<13>> \o DecodeFrom(raw, k + 2)
               [] c2 = 116 -> <<9>> \o DecodeFrom(raw, k + 2)
               [] c2 = 98 -> <<8>> \o DecodeFrom(raw, k + 2)
               [] c2 = 102 -> <<12>> \o DecodeFrom(raw, k + 2)
               [] c2 \in {LPAREN, RPAREN, BACKSLASH} -> <<c2>> \o DecodeFrom(raw, k + 2)
               [] c2 \in 48..55 ->
                    <<OctValue(raw, k + 1, n) % 256>> \o DecodeFrom(raw, k + 1 + n)
               [] OTHER -> <<c2>> \o DecodeFrom(raw, k + 2)

\* latin1 maps byte b to code point b
_decode_pdf_literal(raw) == DecodeFrom(raw, 0)

RECURSIVE LStrip(_)
LStrip(s) == IF s # <<>> /\ Head(s) \in StrWhitespace THEN LStrip(Tail(s)) ELSE s

RECURSIVE RStrip(_)
RStrip(s) ==
    IF s # <<>> /\ s[Len(s)] \in StrWhitespace
    THEN RStrip(SubSeq(s, 1, Len(s) - 1)) ELSE s

\* str.strip()
Strip(s) == RStrip(LStrip(s))

----------------------------------------------------------------------------
(* _tokenize_pdf_content_stream: a generator; pc = "scan" is the top of its  *)
(* while loop, "str" and "arr" the inner loops, "yield" a token handed to   *)
(* the for loop of _extract_text_items_from_content_stream.                 *)

NoTok == [kind |-> "none", val |-> <<>>]

RECURSIVE Find(_, _, _)
\* s.find(bytes([b]), k)
Find(s, b, k) ==
    IF k >= Len(s) THEN -1 ELSE IF At(s, k) = b THEN k ELSE Find(s, b, k + 1)

RECURSIVE RunEnd(_, _)
\* where the run of non-whitespace, non-delimiter bytes from j on ends
RunEnd(s, j) ==
    IF j < Len(s) /\ At(s, j) \notin Whitespace /\ At(s, j) \notin Delimiters
    THEN RunEnd(s, j + 1) ELSE j

Yield(kind, val) ==
    /\ tok' = [kind |-> kind, val |-> val]
    /\ pc' = "yield"

\* while i < len(data) fails: the generator ends and the items are returned
TokEnd ==
    /\ pc = "scan" /\ i >= Len(data)
    /\ pc' = "done"
    /\ UNCHANGED <<data, i, depth, buf, tokStart, tok, stack, in_text, x, y, items>>
    /\ OutsideLex

TokWhitespace ==
    /\ pc = "scan" /\ i < Len(data) /\ At(data, i) \in Whitespace
    /\ i' = i + 1
    /\ UNCHANGED <<data, pc, depth, buf, tokStart, tok, stack, in_text, x, y, items>>
    /\ OutsideLex

TokComment ==
    /\ pc = "scan" /\ i < Len(data) /\ At(data, i) = PERCENT
    /\ LET j == Find(data, NEWLINE, i)
       IN  IF j = -1 THEN pc' = "done" /\ i' = i
                     ELSE pc' = pc /\ i' = j + 1
    /\ UNCHANGED <<data, depth, buf, tokStart, tok, stack, in_text, x, y, items>>
    /\ OutsideLex

\* the opening ( or [ : depth = 1, i += 1, buf = bytearray()
NestOpen(open, loop) ==
    /\ pc = "scan" /\ i < Len(data) /\ At(data, i) = open
    /\ depth' = 1 /\ tokStart' = i /\ i' = i + 1 /\ buf' = <<>> /\ pc' = loop
    /\ UNCHANGED <<data, tok, stack, in_text, x, y, items>>
    /\ OutsideLex

\* NestStep without the backslash branch: an escaped parenthesis is counted
NestStepCountsEscaped(open, close, loop, kind) ==
    /\ pc = loop
    /\ IF i < Len(data) /\ depth > 0
       THEN LET ch == At(data, i)
            IN  IF ch = close /\ depth - 1 = 0
                THEN /\ depth' = 0 /\ i' = i + 1 /\ buf' = buf
                     /\ Yield(kind, buf)
                ELSE /\ depth' = IF ch = open THEN depth + 1
                                 ELSE IF ch = close THEN depth - 1 ELSE depth
                     /\ buf' = Append(buf, ch)
                     /\ i' = i + 1
                     /\ UNCHANGED <<pc, tok>>
       ELSE /\ Yield(kind, buf)
            /\ UNCHANGED <<i, depth, buf>>
    /\ UNCHANGED <<data, tokStart, stack, in_text, x, y, items>>
    /\ OutsideLex

\* one pass of the inner while loop, or the yield behind it
NestStep(open, close, loop, kind) ==
    /\ pc = loop
    /\ IF i < Len(data) /\ depth > 0
       THEN LET ch == At(data, i)
            IN  IF ch = BACKSLASH
                THEN /\ buf' = IF i + 1 < Len(data)
                               THEN buf \o <<ch, At(data, i + 1)>> ELSE buf \o <<ch>>
                     /\ i' = IF i + 1 < Len(data) THEN i + 2 ELSE i + 1
                     /\ UNCHANGED <<depth, pc, tok>>
                ELSE IF ch = close /\ depth - 1 = 0
                THEN /\ depth' = 0 /\ i' = i + 1 /\ buf' = buf
                     /\ Yield(kind, buf)
                ELSE /\ depth' = IF ch = open THEN depth + 1
                                 ELSE IF ch = close THEN depth - 1 ELSE depth
                     /\ buf' = Append(buf, ch)
                     /\ i' = i + 1
                     /\ UNCHANGED <<pc, tok>>
       ELSE /\ Yield(kind, buf)
            /\ UNCHANGED <<i, depth, buf>>
    /\ UNCHANGED <<data, tokStart, stack, in_text, x, y, items>>
    /\ OutsideLex

TokStrOpen == NestOpen(LPAREN, "str")
TokStrStep == NestStep(LPAREN, RPAREN, "str", "str")
TokArrOpen == NestOpen(LBRACKET, "arr")
TokArrStep == NestStep(LBRACKET, RBRACKET, "arr", "arr")

\* yield ("name", data[i:j]); i = j
TokName ==
    /\ pc = "scan" /\ i < Len(data) /\ At(data, i) = SLASH
    /\ LET j == RunEnd(data, i + 1)
       IN  Yield("name", Slice(data, i, j)) /\ i' = j
    /\ tokStart' = i
    /\ UNCHANGED <<data, depth, buf, stack, in_text, x, y, items>>
    /\ OutsideLex

\* yield ("tok", data[i:j]); i = j
TokBare ==
    /\ pc = "scan" /\ i < Len(data)
    /\ At(data, i) \notin Whitespace \cup {PERCENT, LPAREN, LBRACKET, SLASH}
    /\ LET j == RunEnd(data, i)
       IN  Yield("tok", Slice(data, i, j)) /\ i' = j
    /\ tokStart' = i
    /\ UNCHANGED <<data, depth, buf, stack, in_text, x, y, items>>
    /\ OutsideLex

----------------------------------------------------------------------------
(* _extract_text_items_from_content_stream: the body of the for loop, one   *)
(* action per branch.  An uncaught exception ends the call: pc = "raised". *)

Num(n) == [kind |-> "num", val |-> <<>>, num |-> n]
Obj(t) == [kind |-> t.kind, val |-> t.val, num |-> 0]

\* isinstance(e, tuple): every stack entry but a float
IsTuple(e) == e.kind # "num"

TextItem(px, py, text) == [x |-> px, y |-> py, text |-> text]

Resume == pc' = "scan" /\ tok' = NoTok

LexFrame == UNCHANGED <<data, i, depth, buf, tokStart>> /\ OutsideLex

IsOp(name) == tok.kind = "tok" /\ ~NumMatch(tok.val) /\ tok.val = name

OpBT == <<66, 84>>
OpET == <<69, 84>>
OpTm == <<84, 109>>
OpTd == <<84, 100>>
OpTj == <<84, 106>>
OpTJ == <<84, 74>>

\* if kind != "tok": stack.append((kind, val))
InterpPush ==
    /\ pc = "yield" /\ tok.kind # "tok"
    /\ stack' = Append(stack, Obj(tok))
    /\ Resume /\ LexFrame /\ UNCHANGED <<in_text, x, y, items>>

\* if _NUM_TOKEN_RE.match(val): stack.append(float(val))
InterpNumber ==
    /\ pc = "yield" /\ tok.kind = "tok" /\ NumMatch(tok.val)
    /\ stack' = Append(stack, Num(ToFloat(tok.val)))
    /\ Resume /\ LexFrame /\ UNCHANGED <<in_text, x, y, items>>

InterpBT ==
    /\ pc = "yield" /\ IsOp(OpBT)
    /\ in_text' = TRUE /\ stack' = <<>>
    /\ Resume /\ LexFrame /\ UNCHANGED <<x, y, items>>

\* InterpET without stack.clear()
InterpETKeepsStack ==
    /\ pc = "yield" /\ IsOp(OpET)
    /\ in_text' = FALSE
    /\ Resume /\ LexFrame /\ UNCHANGED <<stack, x, y, items>>

InterpET ==
    /\ pc = "yield" /\ IsOp(OpET)
    /\ in_text' = FALSE /\ stack' = <<>>
    /\ Resume /\ LexFrame /\ UNCHANGED <<x, y, items>>

\* if not in_text: stack.clear()
InterpOutside ==
    /\ pc = "yield" /\ tok.kind = "tok" /\ ~NumMatch(tok.val)
    /\ tok.val \notin {OpBT, OpET} /\ ~in_text
    /\ stack' = <<>>
    /\ Resume /\ LexFrame /\ UNCHANGED <<in_text, x, y, items>>

\* float(stack[-2]), float(stack[-1]): TypeError on a tuple
LastTwoAreFloats == ~IsTuple(stack[Len(stack) - 1]) /\ ~IsTuple(stack[Len(stack)])

InterpTm ==
    /\ pc = "yield" /\ IsOp(OpTm) /\ in_text /\ Len(stack) >= 6
    /\ IF LastTwoAreFloats
       THEN /\ x' = stack[Len(stack) - 1].num
            /\ y' = stack[Len(stack)].num
            /\ stack' = <<>>
            /\ Resume
       ELSE /\ pc' = "raised"
            /\ UNCHANGED <<x, y, stack, tok>>
    /\ LexFrame /\ UNCHANGED <<in_text, items>>

InterpTd ==
    /\ pc = "yield" /\ IsOp(OpTd) /\ in_text /\ Len(stack) >= 2
    /\ IF LastTwoAreFloats
       THEN /\ x' = x + stack[Len(stack) - 1].num
            /\ y' = y + stack[Len(stack)].num
            /\ stack' = <<>>
            /\ Resume
       ELSE /\ pc' = "raised"
            /\ UNCHANGED <<x, y, stack, tok>>
    /\ LexFrame /\ UNCHANGED <<in_text, items>>

TopIs(kind) == stack # <<>> /\ IsTuple(stack[Len(stack)]) /\ stack[Len(stack)].kind = kind

InterpTj ==
    /\ pc = "yield" /\ IsOp(OpTj) /\ in_text
    /\ LET text == IF TopIs("str")
                   THEN Strip(_decode_pdf_literal(stack[Len(stack)].val)) ELSE <<>>
       IN  items' = IF text # <<>> THEN Append(items, TextItem(x, y, text)) ELSE items
    /\ stack' = <<>>
    /\ Resume /\ LexFrame /\ UNCHANGED <<in_text, x, y>>

RECURSIVE CloseAt(_, _)
\* the first ) from position k on that no newline precedes, or -1
CloseAt(s, k) ==
    IF k >= Len(s) THEN -1
    ELSE IF At(s, k) = RPAREN THEN k
    ELSE IF At(s, k) = NEWLINE THEN -1
    ELSE CloseAt(s, k + 1)

RECURSIVE ParenSpans(_, _)
\* group(1) of every match of re.finditer(br"\((.*?)\)", s), from position p on
ParenSpans(s, p) ==
    IF p >= Len(s) THEN <<>>
    ELSE IF At(s, p) = LPAREN /\ CloseAt(s, p + 1) # -1
         THEN <<Slice(s, p + 1, CloseAt(s, p + 1))>> \o ParenSpans(s, CloseAt(s, p + 1) + 1)
         ELSE ParenSpans(s, p + 1)

RECURSIVE SpanItems(_, _, _)
\* the TextItems of the spans whose decoded, stripped text is not empty
SpanItems(spans, px, py) ==
    IF spans = <<>> THEN <<>>
    ELSE LET text == Strip(_decode_pdf_literal(Head(spans)))
         IN  (IF text # <<>> THEN <<TextItem(px, py, text)>> ELSE <<>>)
                 \o SpanItems(Tail(spans), px, py)

InterpTJ ==
    /\ pc = "yield" /\ IsOp(OpTJ) /\ in_text
    /\ items' = IF TopIs("arr")
                THEN items \o SpanItems(ParenSpans(stack[Len(stack)].val, 0), x, y)
                ELSE items
    /\ stack' = <<>>
    /\ Resume /\ LexFrame /\ UNCHANGED <<in_text, x, y>>

\* the final stack.clear(): any other operator, Tm or Td with too few operands
InterpOther ==
    /\ pc = "yield" /\ tok.kind = "tok" /\ ~NumMatch(tok.val) /\ in_text
    /\ tok.val \notin {OpBT, OpET, OpTj, OpTJ}
    /\ tok.val = OpTm => Len(stack) < 6
    /\ tok.val = OpTd => Len(stack) < 2
    /\ stack' = <<>>
    /\ Resume /\ LexFrame /\ UNCHANGED <<in_text, x, y, items>>

----------------------------------------------------------------------------
(* Content streams the tokenizer and the interpreter are run on *)

\* bound: the number of pieces a generated buffer is put together from
MaxPieces == 3

Pieces ==
    { T(<<"(">>), T(<<")">>), T(<<"bs">>), T(<<"[">>), T(<<"]">>), T(<<"a">>),
      T(<<" ">>), T(<<"lf">>), T(<<"%">>), T(<<"<">>), T(<<"/", "N">>),
      T(<<"1", " ">>), T(<<"T", "j", " ">>), T(<<"T", "J", " ">>),
      T(<<"T", "d", " ">>), T(<<"E", "T", " ">>) }

PieceSeqs == UNION {[1..n -> Pieces] : n \in 0..MaxPieces}

\* every buffer of at most MaxPieces pieces, bare or inside an open text block
GeneratedBuffers ==
    {pre \o Flatten(ps) : pre \in {<<>>, T(<<"B", "T", " ">>)}, ps \in PieceSeqs}

\* operands put in front of Tm and Td
Operands ==
    { T(<<"5", " ">>), T(<<"-", "2", " ">>), T(<<"1", ".", "5", " ">>),
      T(<<"/", "N", " ">>), T(<<"(", "a", ")", " ">>), T(<<"[", "a", "]", " ">>) }

ShowA == T(<<"(", "a", ")", " ", "T", "j", " ", "E", "T">>)

\* BT 1 0 0 1 <a> <b> Tm (a) Tj ET
TmBuffers ==
    { T(<<"B", "T", " ", "1", " ", "0", " ", "0", " ", "1", " ">>) \o a \o b
          \o T(<<"T", "m", " ">>) \o ShowA : a \in Operands, b \in Operands }

\* BT 5 7 Td <a> <b> Td (a) Tj ET
TdBuffers ==
    { T(<<"B", "T", " ", "5", " ", "7", " ", "T", "d", " ">>) \o a \o b
          \o T(<<"T", "d", " ">>) \o ShowA : a \in Operands, b \in Operands }

\* BT (a\(b\)c) Tj ET
EscapedParens ==
    T(<<"B", "T", " ", "(", "a", "bs", "(", "b", "bs", ")", "c", ")", " ",
        "T", "j", " ", "E", "T">>)

\* BT (a(b)c) Tj ET
NestedParens ==
    T(<<"B", "T", " ", "(", "a", "(", "b", ")", "c", ")", " ", "T", "j", " ", "E", "T">>)

\* BT 1 0 0 1 50 700 Tm [(Da) -20 (te)] TJ ET (x) Tj
ShowArray ==
    T(<<"B", "T", " ", "1", " ", "0", " ", "0", " ", "1", " ", "5", "0", " ",
        "7", "0", "0", " ", "T", "m", " ", "[", "(", "D", "a", ")", " ", "-", "2", "0",
        " ", "(", "t", "e", ")", "]", " ", "T", "J", " ", "E", "T", " ",
        "(", "x", ")", " ", "T", "j">>)

\* % c <newline> 1 2 Td BT 1 2 3 Tm /F1 9 Tf ET
Mixed ==
    T(<<"%", " ", "c", "lf", "1", " ", "2", " ", "T", "d", " ", "B", "T", " ",
        "1", " ", "2", " ", "3", " ", "T", "m", " ", "/", "F", "1", " ", "9", " ",
        "T", "f", " ", "E", "T">>)

\* BT 5 7 Td [(a\)b)] TJ ET
ShowArrayEscaped ==
    T(<<"B", "T", " ", "5", " ", "7", " ", "T", "d", " ", "[", "(", "a", "bs", ")", "b", ")",
        "]", " ", "T", "J", " ", "E", "T">>)

\* BT 5 7 Td [(a(b)c) 3 (d)] TJ ET
ShowArrayNested ==
    T(<<"B", "T", " ", "5", " ", "7", " ", "T", "d", " ", "[", "(", "a", "(", "b", ")", "c",
        ")", " ", "3", " ", "(", "d", ")", "]", " ", "T", "J", " ", "E", "T">>)

\* BT 5 7 Td ET 1 2 Td (a) Tj [(c)] TJ 1 BT (b) Tj 3 ET
Reopened ==
    T(<<"B", "T", " ", "5", " ", "7", " ", "T", "d", " ", "E", "T", " ",
        "1", " ", "2", " ", "T", "d", " ", "(", "a", ")", " ", "T", "j", " ",
        "[", "(", "c", ")", "]", " ", "T", "J", " ", "1", " ",
        "B", "T", " ", "(", "b", ")", " ", "T", "j", " ", "3", " ", "E", "T">>)

SampleBuffers ==
    TmBuffers \cup TdBuffers
        \cup {EscapedParens, NestedParens, ShowArray, Mixed, ShowArrayEscaped, ShowArrayNested,
              Reopened}

Buffers == GeneratedBuffers \cup SampleBuffers

----------------------------------------------------------------------------
(* sorted(..., key=...): Python's sort is stable and compares key tuples    *)
(* lexicographically.                                                      *)

RECURSIVE KeyLess(_, _)
\* a < b for tuples of numbers
KeyLess(a, b) ==
    IF a = <<>> \/ b = <<>> THEN a = <<>> /\ b # <<>>
    ELSE IF Head(a) # Head(b) THEN Head(a) < Head(b)
    ELSE KeyLess(Tail(a), Tail(b))

RECURSIVE InsertKeyed(_, _)
\* e put behind every member of the sorted s whose key is not greater
InsertKeyed(e, s) ==
    IF s = <<>> THEN <<e>>
    ELSE IF KeyLess(e.key, Head(s).key) THEN <<e>> \o s
    ELSE <<Head(s)>> \o InsertKeyed(e, Tail(s))

RECURSIVE SortKeyed(_)
SortKeyed(s) ==
    IF s = <<>> THEN <<>>
    ELSE InsertKeyed(s[Len(s)], SortKeyed(SubSeq(s, 1, Len(s) - 1)))

Unkeyed(s) == [k \in 1..Len(s) |-> s[k].val]

\* SortTopLeft that leaves the fragments in the order given
SortTopLeftKeepsOrder(its) == its

\* sorted(items, key=lambda t: (-t.y, t.x))
SortTopLeft(its) ==
    Unkeyed(SortKeyed([k \in 1..Len(its) |->
        [key |-> <<0 - its[k].y, its[k].x>>, val |-> its[k]]]))

\* sorted(row_items, key=lambda t: t.x)
SortByX(its) ==
    Unkeyed(SortKeyed([k \in 1..Len(its) |-> [key |-> <<its[k].x>>, val |-> its[k]]]))

----------------------------------------------------------------------------
(* group_text_items_into_rows.  The dict it returns is a sequence of        *)
(* [y, items] in insertion order, which is the order rows.items() gives.   *)

\* y_tolerance = 1.8
Y_TOLERANCE == 18

Abs(n) == IF n < 0 THEN 0 - n ELSE n

RECURSIVE FirstKey(_, _)
\* the position of the first row key within tolerance of py, or 0
FirstKey(rs, py) ==
    IF rs = <<>> THEN 0
    ELSE IF Abs(Head(rs).y - py) <= Y_TOLERANCE THEN 1
    ELSE LET k == FirstKey(Tail(rs), py) IN IF k = 0 THEN 0 ELSE k + 1

\* one pass of the for loop: the item joins the first row in tolerance, or
\* starts a row of its own at the end
PlaceItem(rs, item) ==
    LET k == FirstKey(rs, item.y)
    IN  IF k = 0 THEN Append(rs, [y |-> item.y, items |-> <<item>>])
        ELSE [rs EXCEPT ![k].items = Append(@, item)]

RECURSIVE PlaceAll(_, _)
PlaceAll(rs, its) ==
    IF its = <<>> THEN rs ELSE PlaceAll(PlaceItem(rs, Head(its)), Tail(its))

group_text_items_into_rows(its) ==
    LET rs == PlaceAll(<<>>, SortTopLeft(its))
    IN  [k \in 1..Len(rs) |-> [y |-> rs[k].y, items |-> SortByX(rs[k].items)]]

----------------------------------------------------------------------------
(* webapp/banks/hlb.py: texts, regular expressions and the row extractors.  *)
(* None is the empty value of its kind (the empty text, <<>> for current): *)
(* the code only ever tests these values for truth.                        *)

\* needle in hay
Contains(hay, needle) ==
    \E k \in 0..(Len(hay) - Len(needle)) : Slice(hay, k, k + Len(needle)) = needle

RECURSIVE JoinSp(_)
\* " ".join(texts)
JoinSp(texts) ==
    IF texts = <<>> THEN <<>>
    ELSE IF Len(texts) = 1 THEN Head(texts)
    ELSE Head(texts) \o <<32>> \o JoinSp(Tail(texts))

Texts(row_items) == [k \in 1..Len(row_items) |-> row_items[k].text]

\* \w of a str pattern, for the code points below 256
IsWord(c) ==
    c \in (48..57) \cup (65..90) \cup {95} \cup (97..122) \cup {170, 178, 179, 181, 185, 186}
            \cup (188..190) \cup (192..214) \cup (216..246) \cup (248..255)

\* \b at position k of s
WordBoundary(s, k) ==
    (k > 0 /\ IsWord(At(s, k - 1))) # (k < Len(s) /\ IsWord(At(s, k)))

AllDigits(s, a, b) == \A k \in a..(b - 1) : IsDigit(At(s, k))

\* self._date_re = \b\d{2}-\d{2}-\d{4}\b matches s[k:k+10]
DateAt(s, k) ==
    /\ k + 10 <= Len(s)
    /\ AllDigits(s, k, k + 2) /\ At(s, k + 2) = 45
    /\ AllDigits(s, k + 3, k + 5) /\ At(s, k + 5) = 45
    /\ AllDigits(s, k + 6, k + 10)
    /\ WordBoundary(s, k) /\ WordBoundary(s, k + 10)

HasDate(s) == \E k \in 0..Len(s) : DateAt(s, k)

\* m.group(0) of self._date_re.search(s): the leftmost match
DateSearch(s) ==
    LET k == CHOOSE j \in 0..Len(s) : DateAt(s, j) /\ \A h \in 0..(j - 1) : ~DateAt(s, h)
    IN  Slice(s, k, k + 10)

\* IsoDate without the reordering: the date as printed
IsoDateAsPrinted(m) == m

\* day, month, year = m.split("-"); f"{year}-{month}-{day}"
IsoDate(m) == Slice(m, 6, 10) \o <<45>> \o Slice(m, 3, 5) \o <<45>> \o Slice(m, 0, 2)

RECURSIVE AmountTail(_, _)
\* (?:,\d{3})*\.\d{2}\b matches s from position k to its end
AmountTail(s, k) ==
    IF k >= Len(s) THEN FALSE
    ELSE IF At(s, k) = 44
         THEN k + 4 <= Len(s) /\ AllDigits(s, k + 1, k + 4) /\ AmountTail(s, k + 4)
    ELSE /\ At(s, k) = 46 /\ k + 3 = Len(s) /\ AllDigits(s, k + 1, k + 3)
         /\ WordBoundary(s, k + 3)

\* self._amount_re = \b\d{1,3}(?:,\d{3})*\.\d{2}\b fullmatches s
AmountFullMatch(s) ==
    /\ DigitRun(s, 0) \in 1..3
    /\ WordBoundary(s, 0)
    /\ AmountTail(s, DigitRun(s, 0))

\* s.replace(",", "")
RemoveCommas(s) == SelectSeq(s, LAMBDA c : c # 44)

\* float(s) of digits, a point and two digits, in hundredths
FloatCents(s) ==
    LET n == DigitRun(s, 0)
    IN  DigitsValue(s, 0, n) * 100 + DigitsValue(s, n + 1, 2)

RECURSIVE ExtractRowDateAnywhere(_, _)
\* _extract_row_date without the test t.x <= desc_left
ExtractRowDateAnywhere(row_items, left) ==
    IF row_items = <<>> THEN <<>>
    ELSE IF HasDate(Head(row_items).text)
         THEN IsoDate(DateSearch(Head(row_items).text))
    ELSE ExtractRowDateAnywhere(Tail(row_items), left)

RECURSIVE _extract_row_date(_, _)
\* the date of the first item at or left of desc_left that holds one
_extract_row_date(row_items, desc_left) ==
    IF row_items = <<>> THEN <<>>
    ELSE IF Head(row_items).x <= desc_left /\ HasDate(Head(row_items).text)
         THEN IsoDate(DateSearch(Head(row_items).text))
    ELSE _extract_row_date(Tail(row_items), desc_left)

_extract_description(row_items, desc_left, desc_right) ==
    Strip(JoinSp(Texts(SelectSeq(row_items,
                               LAMBDA t : desc_left <= t.x /\ t.x < desc_right))))

RECURSIVE AmountsFromOpenBand(_, _, _)
\* AmountsFrom with a deposit band that has no right edge
AmountsFromOpenBand(row_items, cols, acc) ==
    IF row_items = <<>> THEN acc
    ELSE LET t == Head(row_items)
             next ==
                 IF ~AmountFullMatch(Strip(t.text)) THEN acc
                 ELSE IF cols.deposit - 20 <= t.x
                      THEN [acc EXCEPT !.deposit = t.text]
                 ELSE IF cols.withdrawal - 20 <= t.x /\ t.x < cols.balance - 20
                      THEN [acc EXCEPT !.withdrawal = t.text]
                 ELSE acc
         IN  AmountsFromOpenBand(Tail(row_items), cols, next)

RECURSIVE AmountsFrom(_, _, _)
\* the for loop of _extract_amounts, from the pair acc on
AmountsFrom(row_items, cols, acc) ==
    IF row_items = <<>> THEN acc
    ELSE LET t == Head(row_items)
             next ==
                 IF ~AmountFullMatch(Strip(t.text)) THEN acc
                 ELSE IF cols.deposit - 20 <= t.x /\ t.x < cols.withdrawal - 20
                      THEN [acc EXCEPT !.deposit = t.text]
                 ELSE IF cols.withdrawal - 20 <= t.x /\ t.x < cols.balance - 20
                      THEN [acc EXCEPT !.withdrawal = t.text]
                 ELSE acc
         IN  AmountsFrom(Tail(row_items), cols, next)

_extract_amounts(row_items, cols) ==
    AmountsFrom(row_items, cols, [deposit |-> <<>>, withdrawal |-> <<>>])

LabelDate == T(<<"D", "a", "t", "e">>)
LabelDesc ==
    T(<<"T", "r", "a", "n", "s", "a", "c", "t", "i", "o", "n", " ",
        "D", "e", "s", "c", "r", "i", "p", "t", "i", "o", "n">>)
LabelDeposit == T(<<"D", "e", "p", "o", "s", "i", "t">>)
LabelWithdrawal == T(<<"W", "i", "t", "h", "d", "r", "a", "w", "a", "l">>)
LabelBalance == T(<<"B", "a", "l", "a", "n", "c", "e">>)

\* required
Required == {LabelDate, LabelDesc, LabelDeposit, LabelWithdrawal, LabelBalance}

\* by_text[label]: a later item of the row overwrites an earlier one
XOf(row_items, label) ==
    LET last == CHOOSE k \in 1..Len(row_items) :
                    /\ row_items[k].text = label
                    /\ \A h \in (k + 1)..Len(row_items) : row_items[h].text # label
    IN  row_items[last].x

\* all(k in by_text for k in required)
IsHeaderRow(row_items) ==
    \A label \in Required : \E k \in 1..Len(row_items) : row_items[k].text = label

NoHeader == [found |-> FALSE, y |-> 0,
             anchors |-> [date |-> 0, desc |-> 0, deposit |-> 0, withdrawal |-> 0, balance |-> 0]]

RECURSIVE FindLastHeader(_)
\* _find_transaction_header returning the last row that holds every label
FindLastHeader(rs) ==
    IF rs = <<>> THEN NoHeader
    ELSE IF FindLastHeader(Tail(rs)).found THEN FindLastHeader(Tail(rs))
    ELSE IF IsHeaderRow(Head(rs).items)
         THEN [found |-> TRUE, y |-> Head(rs).y,
               anchors |-> [date |-> XOf(Head(rs).items, LabelDate),
                            desc |-> XOf(Head(rs).items, LabelDesc),
                            deposit |-> XOf(Head(rs).items, LabelDeposit),
                            withdrawal |-> XOf(Head(rs).items, LabelWithdrawal),
                            balance |-> XOf(Head(rs).items, LabelBalance)]]
    ELSE NoHeader

RECURSIVE _find_transaction_header(_)
\* the first row, in the order of rows.items(), that holds every label
_find_transaction_header(rs) ==
    IF rs = <<>> THEN NoHeader
    ELSE IF IsHeaderRow(Head(rs).items)
         THEN [found |-> TRUE, y |-> Head(rs).y,
               anchors |-> [date |-> XOf(Head(rs).items, LabelDate),
                            desc |-> XOf(Head(rs).items, LabelDesc),
                            deposit |-> XOf(Head(rs).items, LabelDeposit),
                            withdrawal |-> XOf(Head(rs).items, LabelWithdrawal),
                            balance |-> XOf(Head(rs).items, LabelBalance)]]
    ELSE _find_transaction_header(Tail(rs))

Marker ==
    T(<<"H", "L", "B", " ", "P", "R", "I", "M", "E", "B", "I", "Z", " ",
        "C", "U", "R", "R", "E", "N", "T", " ", "A", "C", "C", "O", "U", "N", "T">>)

RebateSummary ==
    T(<<"R", "e", "b", "a", "t", "e", " ", "S", "u", "m", "m", "a", "r", "y">>)
ClosingBalance ==
    T(<<"C", "l", "o", "s", "i", "n", "g", " ", "B", "a", "l", "a", "n", "c", "e">>)
TotalWithdrawals ==
    T(<<"T", "o", "t", "a", "l", " ", "W", "i", "t", "h", "d", "r", "a", "w", "a", "l", "s">>)
TotalDeposits ==
    T(<<"T", "o", "t", "a", "l", " ", "D", "e", "p", "o", "s", "i", "t", "s">>)

stop_phrases == {RebateSummary, ClosingBalance, TotalWithdrawals, TotalDeposits}

\* IsStopRow looking at each fragment by itself instead of the joined line
IsStopRowPerFragment(row_items) ==
    \E p \in stop_phrases : \E k \in 1..Len(row_items) : Contains(row_items[k].text, p)

\* any(p in full_line for p in stop_phrases), full_line the joined row text
IsStopRow(row_items) ==
    \E p \in stop_phrases : Contains(JoinSp(Texts(row_items)), p)

\* OrderedRows without reverse=True: the lowest row first
OrderedRowsAscending(rs, hy) ==
    Unkeyed(SortKeyed(
        LET below == SelectSeq(rs, LAMBDA r : r.y < hy - 10)
        IN  [k \in 1..Len(below) |-> [key |-> <<below[k].y>>, val |-> below[k]]]))

\* OrderedRows with y <= header_y as the test: the header row is kept
OrderedRowsWithHeader(rs, hy) ==
    Unkeyed(SortKeyed(
        LET below == SelectSeq(rs, LAMBDA r : r.y <= hy)
        IN  [k \in 1..Len(below) |-> [key |-> <<0 - below[k].y>>, val |-> below[k]]]))

\* ordered_rows: the rows below the header, sorted by y with reverse=True
OrderedRows(rs, hy) ==
    Unkeyed(SortKeyed(
        LET below == SelectSeq(rs, LAMBDA r : r.y < hy - 10)
        IN  [k \in 1..Len(below) |-> [key |-> <<0 - below[k].y>>, val |-> below[k]]]))

\* FoldDescription without the separating space
FoldDescriptionNoSpace(description, desc) == Strip(description \o desc)

\* current["description"] + " " + desc, stripped
FoldDescription(description, desc) == Strip(description \o <<32>> \o desc)

\* ToRecord without the test for both amounts: the deposit wins
ToRecordBothAsDeposit(t) ==
    IF t.deposit # <<>>
    THEN <<[date |-> t.date, description |-> t.description,
            amount |-> FloatCents(RemoveCommas(t.deposit)), polarity |-> "credit"]>>
    ELSE IF t.withdrawal # <<>>
         THEN <<[date |-> t.date, description |-> t.description,
                 amount |-> 0 - FloatCents(RemoveCommas(t.withdrawal)), polarity |-> "debit"]>>
    ELSE <<>>

\* ToRecord without the minus sign in front of the withdrawal
ToRecordUnsignedWithdrawal(t) ==
    IF t.deposit # <<>> /\ t.withdrawal # <<>> THEN <<>>
    ELSE IF t.deposit # <<>>
         THEN <<[date |-> t.date, description |-> t.description,
                 amount |-> FloatCents(RemoveCommas(t.deposit)), polarity |-> "credit"]>>
    ELSE IF t.withdrawal # <<>>
         THEN <<[date |-> t.date, description |-> t.description,
                 amount |-> FloatCents(RemoveCommas(t.withdrawal)), polarity |-> "debit"]>>
    ELSE <<>>

\* one pass of the conversion loop: the record appended for t, if any
ToRecord(t) ==
    IF t.deposit # <<>> /\ t.withdrawal # <<>> THEN <<>>
    ELSE IF t.deposit # <<>>
         THEN <<[date |-> t.date, description |-> t.description,
                 amount |-> FloatCents(RemoveCommas(t.deposit)), polarity |-> "credit"]>>
    ELSE IF t.withdrawal # <<>>
         THEN <<[date |-> t.date, description |-> t.description,
                 amount |-> 0 - FloatCents(RemoveCommas(t.withdrawal)), polarity |-> "debit"]>>
    ELSE <<>>

----------------------------------------------------------------------------
(* HongLeongBankParser.parse, from the items extract_text_items_from_pdf    *)
(* gave.  ppc: "start", "header", "rows" (the for loop over ordered_rows),  *)
(* "final", "convert" (the for loop over transactions), "done".            *)
(* cur_rows, tx_rows and res_from are history: the row keys that fed the   *)
(* open transaction, those that fed each closed one, and the position in   *)
(* transactions each result record was made from.                          *)

ParseFrame == UNCHANGED <<lexVars, groupVars, decodeVars, streamVars, p_items>>

\* items = extract_text_items_from_pdf(pdf_bytes); the two early returns
ParseRecognise ==
    /\ ppc = "start"
    /\ IF p_items = <<>>
          \/ ~\E k \in 1..Len(p_items) : Contains(p_items[k].text, Marker)
       THEN ppc' = "done"
       ELSE ppc' = "header"
    /\ UNCHANGED <<rows, header_y, anchors, ordered_rows, ri, transactions, current,
                   result, ti, cur_rows, tx_rows, res_from>>
    /\ ParseFrame

\* rows, header, anchors and ordered_rows
ParseHeader ==
    /\ ppc = "header"
    /\ rows' = group_text_items_into_rows(p_items)
    /\ LET header == _find_transaction_header(rows')
       IN  IF ~header.found
           THEN /\ ppc' = "done"
                /\ UNCHANGED <<header_y, anchors, ordered_rows>>
           ELSE /\ ppc' = "rows"
                /\ header_y' = header.y
                /\ anchors' = header.anchors
                /\ ordered_rows' = OrderedRows(rows', header.y)
    /\ UNCHANGED <<ri, transactions, current, result, ti, cur_rows, tx_rows, res_from>>
    /\ ParseFrame

desc_left == anchors.desc - 200
desc_right == anchors.deposit - 20

\* one pass of for _, row_items in ordered_rows
ParseRow ==
    /\ ppc = "rows" /\ ri <= Len(ordered_rows)
    /\ LET row_items == ordered_rows[ri].items
           date == _extract_row_date(row_items, desc_left)
           desc == _extract_description(row_items, desc_left, desc_right)
           amounts == _extract_amounts(row_items, anchors)
       IN  IF IsStopRow(row_items)
           THEN /\ ppc' = "final"
                /\ UNCHANGED <<ri, transactions, current, cur_rows, tx_rows>>
           ELSE /\ ppc' = ppc
                /\ ri' = ri + 1
                /\ IF date # <<>>
                   THEN /\ transactions' = transactions \o current
                        /\ tx_rows' = IF current # <<>> THEN Append(tx_rows, cur_rows)
                                                        ELSE tx_rows
                        /\ current' = <<[date |-> date, description |-> desc,
                                         deposit |-> amounts.deposit,
                                         withdrawal |-> amounts.withdrawal]>>
                        /\ cur_rows' = <<ordered_rows[ri].y>>
                   ELSE IF current # <<>> /\ desc # <<>>
                   THEN /\ current' = <<[current[1] EXCEPT
                              !.description = FoldDescription(@, desc)]>>
                        /\ cur_rows' = Append(cur_rows, ordered_rows[ri].y)
                        /\ UNCHANGED <<transactions, tx_rows>>
                   ELSE UNCHANGED <<transactions, current, cur_rows, tx_rows>>
    /\ UNCHANGED <<rows, header_y, anchors, ordered_rows, result, ti, res_from>>
    /\ ParseFrame

\* ordered_rows is exhausted
ParseRowsEnd ==
    /\ ppc = "rows" /\ ri > Len(ordered_rows)
    /\ ppc' = "final"
    /\ UNCHANGED <<rows, header_y, anchors, ordered_rows, ri, transactions, current,
                   result, ti, cur_rows, tx_rows, res_from>>
    /\ ParseFrame

\* if current is not None: transactions.append(current)
ParseFinalize ==
    /\ ppc = "final"
    /\ transactions' = transactions \o current
    /\ tx_rows' = IF current # <<>> THEN Append(tx_rows, cur_rows) ELSE tx_rows
    /\ ppc' = "convert"
    /\ UNCHANGED <<rows, header_y, anchors, ordered_rows, ri, current, result, ti,
                   cur_rows, res_from>>
    /\ ParseFrame

\* one pass of for t in transactions
ParseConvert ==
    /\ ppc = "convert" /\ ti <= Len(transactions)
    /\ result' = result \o ToRecord(transactions[ti])
    /\ res_from' = IF ToRecord(transactions[ti]) # <<>> THEN Append(res_from, ti)
                                                       ELSE res_from
    /\ ti' = ti + 1
    /\ UNCHANGED <<rows, header_y, anchors, ordered_rows, ri, transactions, current,
                   cur_rows, tx_rows, ppc>>
    /\ ParseFrame

\* return result
ParseReturn ==
    /\ ppc = "convert" /\ ti > Len(transactions)
    /\ ppc' = "done"
    /\ UNCHANGED <<rows, header_y, anchors, ordered_rows, ri, transactions, current,
                   result, ti, cur_rows, tx_rows, res_from>>
    /\ ParseFrame

----------------------------------------------------------------------------
(* Statements parse is run on: a header block and rows below it *)

\* bound: the number of row slots below the header
MaxRows == 3

HeaderY == 10 * 700
MarkerY == 10 * 750
RowGap == 10 * 20

Date1 == T(<<"0", "1", "-", "0", "2", "-", "2", "0", "2", "4">>)
Date2 == T(<<"1", "5", "-", "0", "3", "-", "2", "0", "2", "4">>)
SalaryPayment ==
    T(<<"S", "a", "l", "a", "r", "y", " ", "P", "a", "y", "m", "e", "n", "t">>)
Rent == T(<<"R", "e", "n", "t">>)
Ref == T(<<"R", "e", "f">>)
Amount1500 == T(<<"1", ",", "5", "0", "0", ".", "0", "0">>)
Amount20 == T(<<"2", "0", ".", "0", "0">>)
Amount9999 == T(<<"9", ",", "9", "9", "9", ".", "9", "9">>)
Amount0 == T(<<"0", ".", "0", "0">>)

MarkerItems(m) == IF m THEN <<TextItem(500, MarkerY, Marker)>> ELSE <<>>

StdHeader(py) ==
    << TextItem(500, py, LabelDate), TextItem(1000, py, LabelDesc),
       TextItem(3000, py, LabelDeposit), TextItem(3600, py, LabelWithdrawal),
       TextItem(4200, py, LabelBalance) >>

HeaderKinds == {"std", "none", "partial", "split", "tilted", "double", "swapped"}

HeaderItems(h) ==
    CASE h = "std" -> StdHeader(HeaderY)
      [] h = "none" -> <<>>
      [] h = "partial" -> SubSeq(StdHeader(HeaderY), 1, 4)
      \* the labels on two lines further apart than the tolerance
      [] h = "split" -> SubSeq(StdHeader(HeaderY), 1, 2) \o SubSeq(StdHeader(HeaderY - 25), 3, 5)
      \* the labels on two lines within the tolerance
      [] h = "tilted" -> SubSeq(StdHeader(HeaderY - 10), 1, 2) \o SubSeq(StdHeader(HeaderY), 3, 5)
      \* a second header line, with the deposit and withdrawal columns swapped
      \* the Withdrawal column printed left of the Deposit column
      [] h = "swapped" ->
            << TextItem(500, HeaderY, LabelDate), TextItem(1000, HeaderY, LabelDesc),
               TextItem(3000, HeaderY, LabelWithdrawal), TextItem(3600, HeaderY, LabelDeposit),
               TextItem(4200, HeaderY, LabelBalance) >>
      [] h = "double" ->
            StdHeader(HeaderY) \o
            << TextItem(500, HeaderY - 100, LabelDate), TextItem(1000, HeaderY - 100, LabelDesc),
               TextItem(3600, HeaderY - 100, LabelDeposit),
               TextItem(3000, HeaderY - 100, LabelWithdrawal),
               TextItem(4200, HeaderY - 100, LabelBalance) >>

RowKinds ==
    {"empty", "dep", "wd", "both", "noamt", "nodesc", "cont", "contamt", "blank", "stop"}

RowItems(kind, py) ==
    CASE kind = "empty" -> <<>>
      [] kind = "dep" -> << TextItem(500, py, Date1), TextItem(800, py, SalaryPayment),
                            TextItem(3020, py, Amount1500) >>
      \* the amount printed a little lower than the date, within the tolerance
      [] kind = "wd" -> << TextItem(3600, py - 15, Amount20), TextItem(1000, py, Rent),
                           TextItem(500, py, Date2) >>
      [] kind = "both" -> << TextItem(500, py, Date1), TextItem(1000, py, Rent),
                             TextItem(3020, py, Amount1500), TextItem(3600, py, Amount20) >>
      \* no amount but the one in the balance column
      [] kind = "noamt" -> << TextItem(500, py, Date2), TextItem(1000, py, Rent),
                              TextItem(4200, py, Amount9999) >>
      [] kind = "nodesc" -> << TextItem(500, py, Date1), TextItem(3020, py, Amount20) >>
      [] kind = "cont" -> << TextItem(1000, py, Ref) >>
      \* a date printed right of the description's left edge, and an amount
      [] kind = "contamt" -> << TextItem(900, py, Date1), TextItem(3600, py, Amount20) >>
      [] kind = "blank" -> << TextItem(4200, py, Amount9999) >>
      \* a deposit and a withdrawal of 0.00, each on the left edge of its band
      [] kind = "zerodep" -> << TextItem(500, py, Date1), TextItem(1000, py, Ref),
                                TextItem(2980, py, Amount0) >>
      [] kind = "zerowd" -> << TextItem(500, py, Date2), TextItem(1000, py, Rent),
                               TextItem(3580, py, Amount0) >>
      [] kind = "closing" -> << TextItem(800, py, ClosingBalance), TextItem(4200, py, Amount9999) >>
      \* a trailer phrase in two fragments, on a row with a date and a deposit
      [] kind = "stop" ->
            << TextItem(500, py, Date2), TextItem(1000, py, T(<<"T", "o", "t", "a", "l">>)),
               TextItem(1400, py, T(<<"D", "e", "p", "o", "s", "i", "t", "s">>)),
               TextItem(3020, py, Amount20) >>

SlotY(k) == HeaderY - RowGap * k

BodyItems(body) == Flatten([k \in 1..Len(body) |-> RowItems(body[k], SlotY(k))])

Document(m, h, body) == MarkerItems(m) \o HeaderItems(h) \o BodyItems(body)

\* every body without gaps under the standard header, bodies with a
\* one-fragment trailer and bodies with amounts of 0.00; plain bodies under
\* every header block, with and without the marker; and no fragments at all
Documents ==
    {Document(TRUE, "std", body) : body \in [1..MaxRows -> RowKinds \ {"empty"}]}
        \cup {Document(TRUE, "std", body) : body \in [1..MaxRows -> {"dep", "cont", "closing"}]}
        \cup {Document(TRUE, "std", body) : body \in [1..MaxRows -> {"zerodep", "zerowd", "wd"}]}
        \cup {Document(m, h, body) : m \in BOOLEAN, h \in HeaderKinds,
                                     body \in [1..MaxRows -> {"empty", "dep", "wd"}]}
        \cup {<<>>}

LexIdle ==
    /\ data = <<>> /\ i = 0 /\ pc = "idle" /\ depth = 0 /\ buf = <<>> /\ tokStart = 0
    /\ tok = NoTok /\ stack = <<>>
    /\ in_text = FALSE /\ x = 0 /\ y = 0 /\ items = <<>>

GroupIdle == g_items = <<>> /\ g_rows = <<>> /\ gpc = "idle"

DecodeIdle == d_raw = <<>> /\ d_out = <<>> /\ dpc = "idle"

StreamIdle ==
    /\ pdf_bytes = <<>> /\ m_from = 0 /\ streams = <<>> /\ s_from = <<>> /\ spc = "idle"

ParseIdle ==
    /\ rows = <<>> /\ header_y = 0 /\ anchors = NoHeader.anchors
    /\ ordered_rows = <<>> /\ ri = 1 /\ transactions = <<>> /\ current = <<>>
    /\ result = <<>> /\ ti = 1 /\ cur_rows = <<>> /\ tx_rows = <<>> /\ res_from = <<>>

InitLex ==
    /\ data \in Buffers
    /\ i = 0 /\ pc = "scan" /\ depth = 0 /\ buf = <<>> /\ tokStart = 0
    /\ tok = NoTok /\ stack = <<>>
    /\ in_text = FALSE /\ x = 0 /\ y = 0 /\ items = <<>>
    /\ GroupIdle /\ ParseIdle /\ p_items = <<>> /\ ppc = "idle"
    /\ DecodeIdle /\ StreamIdle

NextLex ==
    \/ TokEnd \/ TokWhitespace \/ TokComment
    \/ TokStrOpen \/ TokStrStep \/ TokArrOpen \/ TokArrStep
    \/ TokName \/ TokBare
    \/ InterpPush \/ InterpNumber \/ InterpBT \/ InterpET \/ InterpOutside
    \/ InterpTm \/ InterpTd \/ InterpTj \/ InterpTJ \/ InterpOther

SpecLex == InitLex /\ [][NextLex]_vars

InitParse ==
    /\ p_items \in Documents
    /\ ppc = "start"
    /\ ParseIdle /\ LexIdle /\ GroupIdle /\ DecodeIdle /\ StreamIdle

NextParse ==
    \/ ParseRecognise \/ ParseHeader \/ ParseRow \/ ParseRowsEnd
    \/ ParseFinalize \/ ParseConvert \/ ParseReturn

SpecParse == InitParse /\ [][NextParse]_vars

----------------------------------------------------------------------------
(* group_text_items_into_rows on its own, on every list of a few fragments *)

\* bound: the number of fragments given to group_text_items_into_rows
MaxItems == 4

GroupYs == {1000, 1015, 1030, 1048}
GroupXs == {10, 20}
GroupUniverse == {TextItem(px, py, <<97>>) : px \in GroupXs, py \in GroupYs}

GroupCall ==
    /\ gpc = "call"
    /\ g_rows' = group_text_items_into_rows(g_items)
    /\ gpc' = "done"
    /\ UNCHANGED <<g_items, lexVars, parseVars, decodeVars, streamVars>>

InitGroup ==
    /\ g_items \in UNION {[1..n -> GroupUniverse] : n \in 0..MaxItems}
    /\ g_rows = <<>> /\ gpc = "call"
    /\ LexIdle /\ ParseIdle /\ p_items = <<>> /\ ppc = "idle"
    /\ DecodeIdle /\ StreamIdle

NextGroup == GroupCall

SpecGroup == InitGroup /\ [][NextGroup]_vars

----------------------------------------------------------------------------
(* _decode_pdf_literal on its own, on every short string over the bytes    *)
(* the escapes are made of, and on a few longer ones                       *)

\* bound: the length of a generated literal string
MaxRaw == 4

\* backslash, n r t b f, ( ), the digits 0 3 7 8, x
RawBytes == {92, 110, 114, 116, 98, 102, 40, 41, 48, 51, 55, 56, 120}

\* \7777   \1017   a\053b   \18x   ab\\n   \0\00\000
RawSamples ==
    { T(<<"bs", "7", "7", "7", "7">>), T(<<"bs", "1", "0", "1", "7">>),
      T(<<"a", "bs", "0", "5", "3", "b">>), T(<<"bs", "1", "8", "x">>),
      T(<<"a", "b", "bs", "bs", "n">>),
      T(<<"bs", "0", "bs", "0", "0", "bs", "0", "0", "0">>) }

RawStrings == UNION {[1..n -> RawBytes] : n \in 0..MaxRaw} \cup RawSamples

DecodeCall ==
    /\ dpc = "call"
    /\ d_out' = _decode_pdf_literal(d_raw)
    /\ dpc' = "done"
    /\ UNCHANGED <<d_raw, lexVars, groupVars, parseVars, streamVars>>

InitDecode ==
    /\ d_raw \in RawStrings
    /\ d_out = <<>> /\ dpc = "call"
    /\ LexIdle /\ GroupIdle /\ ParseIdle /\ p_items = <<>> /\ ppc = "idle"
    /\ StreamIdle

NextDecode == DecodeCall

SpecDecode == InitDecode /\ [][NextDecode]_vars

----------------------------------------------------------------------------
(* _extract_flate_streams.  spc = "scan" is the top of its for loop over    *)
(* the matches of re.finditer.  zlib.decompress is modelled on the zlib     *)
(* streams that hold one stored (uncompressed) deflate block: the header    *)
(* 78 01, the block header 01, LEN and its complement NLEN, the bytes, and  *)
(* their Adler-32 checksum; bytes behind the checksum are ignored, anything *)
(* else raises.                                                            *)

StreamWord == T(<<"s", "t", "r", "e", "a", "m">>)
EndStreamWord == T(<<"e", "n", "d", "s", "t", "r", "e", "a", "m">>)

\* m.end() of a match of br"stream\r?\n" that starts at position k, or -1
MatchEnd(s, k) ==
    IF k + 6 >= Len(s) \/ Slice(s, k, k + 6) # StreamWord THEN -1
    ELSE IF At(s, k + 6) = 10 THEN k + 7
    ELSE IF At(s, k + 6) = 13 /\ k + 7 < Len(s) /\ At(s, k + 7) = 10 THEN k + 8
    ELSE -1

RECURSIVE NextMatch(_, _)
\* where the next match of re.finditer starts, looking from position k on, or -1
NextMatch(s, k) ==
    IF k >= Len(s) THEN -1
    ELSE IF MatchEnd(s, k) # -1 THEN k
    ELSE NextMatch(s, k + 1)

RECURSIVE FindSeq(_, _, _)
\* s.find(needle, k)
FindSeq(s, needle, k) ==
    IF k + Len(needle) > Len(s) THEN -1
    ELSE IF Slice(s, k, k + Len(needle)) = needle THEN k
    ELSE FindSeq(s, needle, k + 1)

\* FindEnd without the start argument: the first endstream of the file
FindEndFromTop(s, start) == FindSeq(s, EndStreamWord, 0)

\* pdf_bytes.find(br"endstream", start)
FindEnd(s, start) == FindSeq(s, EndStreamWord, start)

RECURSIVE Adler(_, _, _)
\* the two sums of Adler-32 over c, from the sums a and b on
Adler(c, a, b) ==
    IF c = <<>> THEN <<a, b>>
    ELSE Adler(Tail(c), (a + Head(c)) % 65521, (b + a + Head(c)) % 65521)

\* the four bytes of the checksum, most significant first
AdlerBytes(c) ==
    LET ab == Adler(c, 1, 0)
    IN  <<ab[2] \div 256, ab[2] % 256, ab[1] \div 256, ab[1] % 256>>

\* zlib.decompress(raw): ok is FALSE where it raises
Inflate(raw) ==
    LET n == raw[4] + 256 * raw[5]
        ok == /\ Len(raw) >= 11
              /\ raw[1] = 120 /\ raw[2] = 1 /\ raw[3] = 1
              /\ raw[6] = 255 - raw[4] /\ raw[7] = 255 - raw[5]
              /\ Len(raw) >= 11 + n
              /\ SubSeq(raw, 8 + n, 11 + n) = AdlerBytes(SubSeq(raw, 8, 7 + n))
    IN  IF Len(raw) >= 11 /\ ok THEN [ok |-> TRUE, out |-> SubSeq(raw, 8, 7 + n)]
                                ELSE [ok |-> FALSE, out |-> <<>>]

\* one pass of for m in re.finditer(...)
StreamNext ==
    /\ spc = "scan" /\ NextMatch(pdf_bytes, m_from) # -1
    /\ LET start == MatchEnd(pdf_bytes, NextMatch(pdf_bytes, m_from))
           end == FindEnd(pdf_bytes, start)
           res == Inflate(Slice(pdf_bytes, start, end))
       IN  /\ m_from' = start
           /\ IF end # -1 /\ res.ok
              THEN streams' = Append(streams, res.out) /\ s_from' = Append(s_from, start)
              ELSE UNCHANGED <<streams, s_from>>
    /\ UNCHANGED <<pdf_bytes, spc, lexVars, groupVars, parseVars, decodeVars>>

\* no match is left: return streams
StreamReturn ==
    /\ spc = "scan" /\ NextMatch(pdf_bytes, m_from) = -1
    /\ spc' = "done"
    /\ UNCHANGED <<pdf_bytes, m_from, streams, s_from, lexVars, groupVars, parseVars,
                   decodeVars>>

\* bound: the number of pieces a file is put together from
MaxBlocks == 3

\* a zlib stream holding c in one stored block
Stored(c) ==
    <<120, 1, 1, Len(c) % 256, Len(c) \div 256, 255 - (Len(c) % 256), 255 - (Len(c) \div 256)>>
        \o c \o AdlerBytes(c)

Contents == {T(<<"B", "T">>), T(<<"a">>)}

Eol == T(<<"lf">>)
CrLf == T(<<"cr", "lf">>)

\* a zlib stream of the byte a with the last byte of its checksum changed
CorruptBlock == SubSeq(Stored(T(<<"a">>)), 1, 11) \o <<0>>
\* and with that byte missing
CutBlock == SubSeq(Stored(T(<<"a">>)), 1, 11)

\* the pieces of a file: well-formed blocks (the marker ended by a newline or
\* by a return and a newline; endstream followed by a newline or not), a
\* block whose checksum is wrong, one cut short, one that is text, a marker
\* without endstream, a zlib stream and endstream without a marker, and text
FilePieces ==
    {StreamWord \o Eol \o Stored(c) \o EndStreamWord \o Eol : c \in Contents}
        \cup { StreamWord \o CrLf \o Stored(T(<<"a">>)) \o Eol \o EndStreamWord \o <<32>>,
               StreamWord \o Eol \o CorruptBlock \o EndStreamWord \o Eol,
               StreamWord \o Eol \o CutBlock \o EndStreamWord \o Eol,
               StreamWord \o Eol \o T(<<"B", "T">>) \o EndStreamWord \o Eol,
               StreamWord \o Eol \o Stored(T(<<"B", "T">>)),
               Stored(T(<<"a">>)) \o EndStreamWord \o Eol,
               T(<<"o", "b", "j", " ">>) }

Files == {Flatten(ps) : ps \in UNION {[1..n -> FilePieces] : n \in 0..MaxBlocks}}

InitStreams ==
    /\ pdf_bytes \in Files
    /\ m_from = 0 /\ streams = <<>> /\ s_from = <<>> /\ spc = "scan"
    /\ LexIdle /\ GroupIdle /\ ParseIdle /\ p_items = <<>> /\ ppc = "idle"
    /\ DecodeIdle

NextStreams == StreamNext \/ StreamReturn

SpecStreams == InitStreams /\ [][NextStreams]_vars

----------------------------------------------------------------------------
(* Claims about _extract_flate_streams, checked under SpecStreams *)

Leads == {StreamWord \o Eol, StreamWord \o CrLf}

\* at position p a well-formed block holding c begins: a stream marker ends
\* there, a zlib stream of c follows, and then, at once or on the next line,
\* the word endstream
WellFormedAt(p, c) ==
    /\ \E ld \in Leads : p >= Len(ld) /\ Slice(pdf_bytes, p - Len(ld), p) = ld
    /\ LET q == p + Len(Stored(c))
       IN  /\ q <= Len(pdf_bytes) /\ Slice(pdf_bytes, p, q) = Stored(c)
           /\ \E sep \in {<<>>, Eol} :
                 /\ q + Len(sep) + Len(EndStreamWord) <= Len(pdf_bytes)
                 /\ Slice(pdf_bytes, q, q + Len(sep) + Len(EndStreamWord)) = sep \o EndStreamWord

\* C15: the buffers returned stand in the order of their markers in the file,
\* each is the content of the zlib stream behind its marker, and every
\* well-formed block of the file is among them, whatever blocks that do not
\* inflate or markers without endstream come before it.
C15_OrderAndSurvival ==
    spc = "done" =>
        /\ Len(s_from) = Len(streams)
        /\ \A k \in 1..(Len(s_from) - 1) : s_from[k] < s_from[k + 1]
        /\ \A k \in 1..Len(streams) :
              \E c \in Contents :
                  /\ streams[k] = c
                  /\ Slice(pdf_bytes, s_from[k], s_from[k] + Len(Stored(c))) = Stored(c)
        /\ \A c \in Contents : \A p \in 0..Len(pdf_bytes) :
              WellFormedAt(p, c) => \E k \in 1..Len(streams) : s_from[k] = p /\ streams[k] = c

\* a block with a wrong checksum, then two well-formed blocks
C15_Witness ==
    /\ spc = "done"
    /\ pdf_bytes = StreamWord \o Eol \o CorruptBlock \o EndStreamWord \o Eol
                      \o StreamWord \o Eol \o Stored(T(<<"B", "T">>)) \o EndStreamWord \o Eol
                      \o StreamWord \o Eol \o Stored(T(<<"a">>)) \o EndStreamWord \o Eol
    /\ streams = <<T(<<"B", "T">>), T(<<"a">>)>>


\* the byte the claim gives for a backslash followed by the byte c, c not an
\* octal digit
EscapeByte(c) ==
    CASE c = Ord("n") -> 10 [] c = Ord("r") -> 13 [] c = Ord("t") -> 9
      [] c = Ord("b") -> 8 [] c = Ord("f") -> 12
      [] OTHER -> c

IsOctal(c) == c \in Ord("0")..Ord("7")

\* the number of octal digits of the escape whose backslash is at position k:
\* at most the first three
EscapeDigits(s, k) ==
    IF k + 3 < Len(s) /\ IsOctal(At(s, k + 2)) /\ IsOctal(At(s, k + 3)) THEN 3
    ELSE IF k + 2 < Len(s) /\ IsOctal(At(s, k + 2)) THEN 2
    ELSE 1

\* the octal value of these digits
EscapeValue(s, k) ==
    LET d(j) == At(s, k + j) - Ord("0")
    IN  CASE EscapeDigits(s, k) = 1 -> d(1)
          [] EscapeDigits(s, k) = 2 -> 8 * d(1) + d(2)
          [] EscapeDigits(s, k) = 3 -> 64 * d(1) + 8 * d(2) + d(3)

\* the positions of the backslashes of s
Backslashes(s) == {k \in 0..(Len(s) - 1) : At(s, k) = BACKSLASH}

\* C11: a string without a backslash is returned as it is; in a string with
\* one escape (a backslash and the byte behind it, which may be a backslash)
\* the bytes before and behind the escape are copied unchanged and in order
\* and the escape gives exactly one byte between them: 10, 13, 9, 8, 12 for
\* n, r, t, b, f, the octal value of at most three digits modulo 256, and
\* the byte itself for any other byte.
C11_EscapeDecoding ==
    dpc = "done" =>
        /\ Backslashes(d_raw) = {} => d_out = d_raw
        /\ \A k \in Backslashes(d_raw) :
              (k + 1 < Len(d_raw) /\ Backslashes(d_raw) \subseteq {k, k + 1}) =>
                  LET pre == Slice(d_raw, 0, k)
                      c == At(d_raw, k + 1)
                      n == IF IsOctal(c) THEN EscapeDigits(d_raw, k) ELSE 1
                      post == Slice(d_raw, k + 1 + n, Len(d_raw))
                  IN  d_out = pre \o <<IF IsOctal(c) THEN EscapeValue(d_raw, k) % 256
                                                      ELSE EscapeByte(c)>> \o post

\* \1017 gives A and 7: three digits are taken, the fourth is copied
C11_Witness ==
    /\ dpc = "done" /\ d_raw = T(<<"bs", "1", "0", "1", "7">>)
    /\ d_out = T(<<"A", "7">>)

----------------------------------------------------------------------------
(* Claims about the tokenizer and the interpreter, checked under SpecLex *)

\* C1: no stage raises an exception to the caller, whatever the input: also
\* not for Tm with >= 6 or Td with >= 2 operands of which one of the last two
\* is a name, a literal string or an array.
C1_NoException == pc # "raised"

\* C2: every token the tokenizer yields has consumed at least one byte, so the
\* scan position has moved past the place where the token began.
C2_TokenConsumesByte == pc = "yield" => i > tokStart

RECURSIVE UnescapedCount(_, _, _)
\* how often byte c stands in s from position k on with no backslash before it
UnescapedCount(s, k, c) ==
    IF k >= Len(s) THEN 0
    ELSE IF At(s, k) = BACKSLASH THEN UnescapedCount(s, k + 2, c)
    ELSE (IF At(s, k) = c THEN 1 ELSE 0) + UnescapedCount(s, k + 1, c)

\* the bytes scanned since the opening parenthesis
Scanned == Slice(data, tokStart + 1, i)

\* C10: while a literal string is scanned, and when it is yielded, the depth is
\* one plus the unescaped ( minus the unescaped ) scanned so far, escaped
\* parentheses not counted; and BT (a\(b\)c) Tj ET gives exactly one fragment,
\* with text a(b)c.
C10_BalancedNesting ==
    /\ (pc = "str" \/ (pc = "yield" /\ tok.kind = "str")) =>
          depth = 1 + UnescapedCount(Scanned, 0, LPAREN) - UnescapedCount(Scanned, 0, RPAREN)
    /\ (pc = "done" /\ data = EscapedParens) =>
          items = <<TextItem(0, 0, T(<<"a", "(", "b", ")", "c">>))>>

C10_Witness == pc = "done" /\ data = EscapedParens /\ Len(items) = 1

RECURSIVE StringClose(_, _, _)
\* the position of the ) that closes the literal string open at depth d,
\* looking from position k on, or -1: a backslash takes the byte behind it
\* along, ( and ) nest
StringClose(s, k, d) ==
    IF k >= Len(s) THEN -1
    ELSE IF At(s, k) = BACKSLASH THEN StringClose(s, k + 2, d)
    ELSE IF At(s, k) = LPAREN THEN StringClose(s, k + 1, d + 1)
    ELSE IF At(s, k) = RPAREN
         THEN IF d = 1 THEN k ELSE StringClose(s, k + 1, d - 1)
    ELSE StringClose(s, k + 1, d)

RECURSIVE ArrayStrings(_, _)
\* the literal strings an array holds, from position k on, each whole
ArrayStrings(s, k) ==
    IF k >= Len(s) THEN <<>>
    ELSE IF At(s, k) = BACKSLASH THEN ArrayStrings(s, k + 2)
    ELSE IF At(s, k) = LPAREN /\ StringClose(s, k + 1, 1) # -1
         THEN <<Slice(s, k + 1, StringClose(s, k + 1, 1))>>
                  \o ArrayStrings(s, StringClose(s, k + 1, 1) + 1)
    ELSE ArrayStrings(s, k + 1)

\* the interpreter takes a TJ inside a text block with an array on top
TakesShowArray == pc = "yield" /\ IsOp(OpTJ) /\ in_text /\ TopIs("arr")

\* C17: TJ inside a text block with an array on top of the stack appends one
\* fragment for every literal string of the array whose decoded, trimmed text
\* is not empty, in array order, with the decoder's text of the whole string
\* (escaped and nested parentheses included), all at the current cursor, and
\* leaves the cursor as it is.
C17_ShowArrayStrings ==
    [][TakesShowArray =>
          /\ items' = items \o SpanItems(ArrayStrings(stack[Len(stack)].val, 0), x, y)
          /\ x' = x /\ y' = y]_vars

\* the token at hand is an operator: a bare token that is no number
OperatorToken == pc = "yield" /\ tok.kind = "tok" /\ ~NumMatch(tok.val)

\* the loop body has run to its end for the token at hand
Processed == pc = "yield" /\ pc' = "scan"

\* C18: when an operator token has been processed the stack is empty; while
\* outside a text block no token changes the cursor or appends a fragment; a
\* fragment is only appended by Tj or TJ inside a text block, which only BT
\* opens and only ET closes; BT and ET leave the cursor as it is.
C18_InterpreterInvariants ==
    [][/\ (OperatorToken /\ Processed) => stack' = <<>>
       /\ ~in_text => x' = x /\ y' = y /\ items' = items
       /\ items' # items => in_text /\ (IsOp(OpTj) \/ IsOp(OpTJ)) /\ in_text'
       /\ (in_text' /\ ~in_text) => IsOp(OpBT)
       /\ (in_text /\ ~in_text') => IsOp(OpET)
       /\ (IsOp(OpBT) \/ IsOp(OpET)) => x' = x /\ y' = y]_vars

\* Td, Tj and TJ between ET and BT did nothing: the one fragment is the b
\* shown in the second text block, at the cursor the first one left
C18_Witness ==
    /\ pc = "done" /\ data = Reopened /\ stack = <<>>
    /\ items = <<TextItem(50, 70, T(<<"b">>))>>

\* the interpreter takes the operator op inside a text block
TakesInText(op) == pc = "yield" /\ IsOp(op) /\ in_text

\* C19: inside a text block Tm with at least 6 operands sets the cursor to
\* the last two operands and Td with at least 2 operands adds them to it; Tm
\* with fewer than 6 and Td with fewer than 2 leave the cursor as it is; in
\* every case the stack is cleared and no fragment is appended; a fragment
\* appended by Tj carries the cursor of that moment.
C19_CursorTransitions ==
    [][/\ (TakesInText(OpTm) /\ Len(stack) >= 6) =>
              x' = stack[Len(stack) - 1].num /\ y' = stack[Len(stack)].num
       /\ (TakesInText(OpTd) /\ Len(stack) >= 2) =>
              x' = x + stack[Len(stack) - 1].num /\ y' = y + stack[Len(stack)].num
       /\ (TakesInText(OpTm) /\ Len(stack) < 6) => x' = x /\ y' = y
       /\ (TakesInText(OpTd) /\ Len(stack) < 2) => x' = x /\ y' = y
       /\ (TakesInText(OpTm) \/ TakesInText(OpTd)) => stack' = <<>> /\ items' = items
       /\ (TakesInText(OpTj) /\ items' # items) =>
              /\ Len(items') = Len(items) + 1 /\ SubSeq(items', 1, Len(items)) = items
              /\ items'[Len(items')].x = x /\ items'[Len(items')].y = y
              /\ x' = x /\ y' = y]_vars

----------------------------------------------------------------------------
(* Claims about group_text_items_into_rows, checked under SpecGroup *)

InputYs == {g_items[k].y : k \in 1..Len(g_items)}

\* how often the value v occurs in the sequence s
Count(s, v) == Cardinality({k \in 1..Len(s) : s[k] = v})

\* the row, if any, that holds a fragment with this y
RowsHolding(py) == {k \in 1..Len(g_rows) : \E h \in 1..Len(g_rows[k].items) : g_rows[k].items[h].y = py}

\* C8 as stated: any two fragments whose y differ by at most the tolerance are
\* in the same row, and no two that differ by more are; the partition does
\* not depend on the input order.
C8_PairwiseClustering ==
    gpc = "done" =>
        \A a, b \in InputYs :
            (Abs(a - b) <= Y_TOLERANCE) <=> (RowsHolding(a) \cap RowsHolding(b) # {})

SetMax(S) == CHOOSE m \in S : \A e \in S : e <= m

RECURSIVE BandKeys(_)
\* the row keys a set of y-values has, whatever the order they come in: the
\* highest value, then the highest value more than the tolerance below it, ...
BandKeys(S) ==
    IF S = {} THEN {}
    ELSE {SetMax(S)} \cup BandKeys({e \in S : e < SetMax(S) - Y_TOLERANCE})

\* C8 as amended: a fragment is in the row of the highest row key that is at
\* most the tolerance above it (the key is the topmost y of the row), so two
\* fragments more than the tolerance apart never share a row; and the keys and
\* the fragments of every row are fixed by the collection alone, not its order.
C8_RowClustering ==
    gpc = "done" =>
        /\ {g_rows[k].y : k \in 1..Len(g_rows)} = BandKeys(InputYs)
        /\ \A k \in 1..Len(g_rows) : \A v \in GroupUniverse :
              Count(g_rows[k].items, v) =
                  IF g_rows[k].y - Y_TOLERANCE <= v.y /\ v.y <= g_rows[k].y
                  THEN Count(g_items, v) ELSE 0
        /\ \A k \in 1..Len(g_rows) : \A a, b \in 1..Len(g_rows[k].items) :
              Abs(g_rows[k].items[a].y - g_rows[k].items[b].y) <= Y_TOLERANCE

\* three fragments in a chain: the outer two are too far apart for one row
C8_Witness ==
    /\ gpc = "done" /\ Len(g_rows) = 2 /\ Len(g_items) = 3
    /\ \E a, b \in InputYs :
          a # b /\ Abs(a - b) <= Y_TOLERANCE /\ RowsHolding(a) \cap RowsHolding(b) = {}

----------------------------------------------------------------------------
(* Claims about HongLeongBankParser.parse, checked under SpecParse *)

ItemSet(s) == {s[k] : k \in 1..Len(s)}

\* the fragments of the example: the header row at y = 700, one row at y = 680
ExampleFragments ==
    { TextItem(500, 7000, LabelDate), TextItem(1000, 7000, LabelDesc),
      TextItem(3000, 7000, LabelDeposit), TextItem(3600, 7000, LabelWithdrawal),
      TextItem(4200, 7000, LabelBalance),
      TextItem(500, 6800, Date1), TextItem(800, 6800, SalaryPayment),
      TextItem(3020, 6800, Amount1500) }

ExampleMarker == TextItem(500, 7500, Marker)

ExampleRecord ==
    [date |-> T(<<"2", "0", "2", "4", "-", "0", "2", "-", "0", "1">>),
     description |-> SalaryPayment, amount |-> 150000, polarity |-> "credit"]

\* C3 as stated: for the document whose only fragments are the example's,
\* parse returns exactly the one record 2024-02-01, Salary Payment, 1500.00, credit.
C3_ExampleAlone ==
    (ppc = "done" /\ ItemSet(p_items) = ExampleFragments) => result = <<ExampleRecord>>

\* C3 as amended: with a fragment holding the bank's marker text above the
\* header as well, parse returns exactly that record; for the example's
\* fragments alone it returns the empty sequence.
C3_ExampleWithMarker ==
    /\ (ppc = "done" /\ ItemSet(p_items) = ExampleFragments \cup {ExampleMarker}) =>
           result = <<ExampleRecord>>
    /\ (ppc = "done" /\ ItemSet(p_items) = ExampleFragments) => result = <<>>

C3_Witness ==
    /\ ppc = "done" /\ ItemSet(p_items) = ExampleFragments \cup {ExampleMarker}
    /\ Len(result) = 1

\* the key of the dated row the k-th result record was opened by
DatedRowY(k) == tx_rows[res_from[k]][1]

\* C4: of any two records of the result, the one whose dated row is higher on
\* the page (the larger row y) comes earlier.
C4_PrintOrder ==
    \A a, b \in 1..Len(result) : a < b => DatedRowY(a) > DatedRowY(b)

C4_Witness == ppc = "done" /\ Len(result) >= 2 /\ DatedRowY(1) > DatedRowY(2)

\* the trailer phrases, as the claims list them
Trailers ==
    { T(<<"R", "e", "b", "a", "t", "e", " ", "S", "u", "m", "m", "a", "r", "y">>),
      T(<<"C", "l", "o", "s", "i", "n", "g", " ", "B", "a", "l", "a", "n", "c", "e">>),
      T(<<"T", "o", "t", "a", "l", " ", "W", "i", "t", "h", "d", "r", "a", "w", "a", "l", "s">>),
      T(<<"T", "o", "t", "a", "l", " ", "D", "e", "p", "o", "s", "i", "t", "s">>) }

HasTrailer(q) == \E p \in Trailers : Contains(JoinSp(Texts(ordered_rows[q].items)), p)

\* the position in ordered_rows of the first row with a trailer phrase, or
\* one past the end
StopPos ==
    IF \E q \in 1..Len(ordered_rows) : HasTrailer(q)
    THEN CHOOSE q \in 1..Len(ordered_rows) : HasTrailer(q) /\ \A h \in 1..(q - 1) : ~HasTrailer(h)
    ELSE Len(ordered_rows) + 1

DateOfRow(q) == _extract_row_date(ordered_rows[q].items, desc_left)
DescOfRow(q) == _extract_description(ordered_rows[q].items, desc_left, desc_right)

\* the positions of the dated rows that are processed, in processing order
DatedPositions ==
    LET stop == StopPos
    IN  SelectSeq([q \in 1..(stop - 1) |-> q], LAMBDA q : DateOfRow(q) # <<>>)

\* the rows folded into the dated row at position p: those behind it, before
\* the next dated row and the stop, that have no date but a description
Continuations(p) ==
    LET stop == StopPos
    IN  SelectSeq([q \in 1..(stop - 1) |-> q],
                  LAMBDA q : /\ q > p /\ DescOfRow(q) # <<>>
                             /\ \A h \in (p + 1)..q : DateOfRow(h) = <<>>)

FoldedTexts(p) ==
    LET cont == Continuations(p)
    IN  <<DescOfRow(p)>> \o [k \in 1..Len(cont) |-> DescOfRow(cont[k])]

\* parse has returned after walking the rows: transactions is final
Folded == ppc = "done" /\ ordered_rows # <<>>

\* C5 as stated: a dated row and the continuation rows behind it make one
\* transaction, whose description is the dated row's description and the
\* continuations' descriptions joined by single spaces, in processing order.
C5_JoinedBySpaces ==
    Folded =>
        LET dated == DatedPositions
        IN  /\ Len(transactions) = Len(dated)
            /\ \A k \in 1..Len(transactions) :
                  transactions[k].description = JoinSp(FoldedTexts(dated[k]))

\* C5 as amended: the same, with the joined text stripped of surrounding
\* white space: a dated row with an empty description puts no space in front
\* of the first continuation.
C5_ContinuationFolding ==
    Folded =>
        LET dated == DatedPositions
        IN  /\ Len(transactions) = Len(dated)
            /\ \A k \in 1..Len(transactions) :
                  transactions[k].description = Strip(JoinSp(FoldedTexts(dated[k])))

C5_Witness ==
    /\ ppc = "done" /\ Len(transactions) >= 1
    /\ Len(Continuations(DatedPositions[1])) >= 2
    /\ DescOfRow(DatedPositions[1]) # <<>>

\* exactly one of deposit and withdrawal is set
OneAmount(t) == (t.deposit # <<>>) # (t.withdrawal # <<>>)

\* C6: a transaction with both amounts or with neither gives no record; every
\* record comes from a transaction with exactly one amount; and every
\* transaction with exactly one amount gives its record, in order, whatever
\* was discarded around it.
C6_ValidityFilter ==
    /\ res_from = SelectSeq([k \in 1..(ti - 1) |-> k], LAMBDA k : OneAmount(transactions[k]))
    /\ Len(result) = Len(res_from)
    /\ \A k \in 1..Len(result) :
          /\ result[k].date = transactions[res_from[k]].date
          /\ result[k].description = transactions[res_from[k]].description

C6_Witness ==
    /\ ppc = "done" /\ Len(result) >= 1
    /\ \E k \in 1..Len(transactions) :
          transactions[k].deposit # <<>> /\ transactions[k].withdrawal # <<>>
    /\ \E k \in 1..Len(transactions) :
          transactions[k].deposit = <<>> /\ transactions[k].withdrawal = <<>>

\* the amount text stands for zero: no digit but 0
ZeroText(text) == \A k \in 1..Len(text) : text[k] \notin 49..57

\* C12 as stated: a record built from a deposit has polarity credit and a
\* strictly positive amount, a record built from a withdrawal has polarity
\* debit and a strictly negative amount, also for the amount text 0.00.
C12_StrictSign ==
    \A k \in 1..Len(result) :
        LET t == transactions[res_from[k]]
        IN  /\ t.deposit # <<>> => result[k].polarity = "credit" /\ result[k].amount > 0
            /\ t.withdrawal # <<>> => result[k].polarity = "debit" /\ result[k].amount < 0

\* C12 as amended: credit and an amount that is not negative for a deposit,
\* debit and an amount that is not positive for a withdrawal; the amount is
\* zero when the amount text stands for zero and only then.
C12_SignAgrees ==
    \A k \in 1..Len(result) :
        LET t == transactions[res_from[k]]
        IN  /\ t.deposit # <<>> =>
                  /\ result[k].polarity = "credit" /\ result[k].amount >= 0
                  /\ result[k].amount = 0 <=> ZeroText(t.deposit)
            /\ t.withdrawal # <<>> =>
                  /\ result[k].polarity = "debit" /\ result[k].amount <= 0
                  /\ result[k].amount = 0 <=> ZeroText(t.withdrawal)

\* a credit of 0.00, a debit of 0.00 and a debit of 20.00 in one result
C12_Witness ==
    /\ ppc = "done" /\ Len(result) = 3
    /\ \E k \in 1..3 : result[k].polarity = "credit" /\ result[k].amount = 0
    /\ \E k \in 1..3 : result[k].polarity = "debit" /\ result[k].amount = 0
    /\ \E k \in 1..3 : result[k].polarity = "debit" /\ result[k].amount = 0 - 2000

\* the row of ordered_rows with the key py
RowAt(py) == CHOOSE r \in ItemSet(ordered_rows) : r.y = py

\* the fragment is an amount whose x lies from 2 units left of the anchor lo
\* to 2 units left of the anchor hi
InBand(t, lo, hi) == AmountFullMatch(Strip(t.text)) /\ lo - 20 <= t.x /\ t.x < hi - 20

IsDeposit(t) == InBand(t, anchors.deposit, anchors.withdrawal)
IsWithdrawal(t) == InBand(t, anchors.withdrawal, anchors.balance)

\* the text of the last fragment of its that P holds of, or the empty text
LastText(its, P(_)) ==
    LET sel == SelectSeq(its, P) IN IF sel = <<>> THEN <<>> ELSE sel[Len(sel)].text

\* the fragments of a row without their y
AcrossRow(r) == [k \in 1..Len(r.items) |-> <<r.items[k].x, r.items[k].text>>]

\* C14: with the anchors of the document, the deposit of a transaction is the
\* amount fragment of its dated row with deposit-2 <= x < withdrawal-2, its
\* withdrawal the one with withdrawal-2 <= x < balance-2, and any other
\* fragment is neither; no fragment is both; and two dated rows with the same
\* fragments at the same x get the same amounts wherever they stand.
C14_ColumnBanding ==
    Folded =>
        /\ \A k \in 1..Len(transactions) :
              LET r == RowAt(tx_rows[k][1])
              IN  /\ transactions[k].deposit = LastText(r.items, IsDeposit)
                  /\ transactions[k].withdrawal = LastText(r.items, IsWithdrawal)
                  /\ \A t \in ItemSet(r.items) : ~(IsDeposit(t) /\ IsWithdrawal(t))
        /\ \A k, h \in 1..Len(transactions) :
              AcrossRow(RowAt(tx_rows[k][1])) = AcrossRow(RowAt(tx_rows[h][1])) =>
                  /\ transactions[k].deposit = transactions[h].deposit
                  /\ transactions[k].withdrawal = transactions[h].withdrawal

\* a deposit, a withdrawal and a row whose only amount is in the balance
\* column, which is neither
C14_Witness ==
    /\ ppc = "done" /\ Len(transactions) = 3
    /\ \E k \in 1..3 : transactions[k].deposit # <<>> /\ transactions[k].withdrawal = <<>>
    /\ \E k \in 1..3 : transactions[k].deposit = <<>> /\ transactions[k].withdrawal # <<>>
    /\ \E k \in 1..3 :
          /\ transactions[k].deposit = <<>> /\ transactions[k].withdrawal = <<>>
          /\ \E t \in ItemSet(RowAt(tx_rows[k][1]).items) : AmountFullMatch(t.text)

\* the keys of the rows that fed a transaction, closed or open
FedRows == UNION {ItemSet(tx_rows[k]) : k \in 1..Len(tx_rows)} \cup ItemSet(cur_rows)

\* the rows of the document whose key is less than header_y - 1
Candidates == {r \in ItemSet(rows) : r.y < header_y - 10}

\* the for loop is at or behind the header search
Walking == ppc \in {"rows", "final", "convert"}

\* C16 as stated: the candidate rows are exactly the rows whose key is less
\* than header_y - 1, and the loop takes them in ascending-y order.
C16_AscendingOrder ==
    Walking =>
        /\ ItemSet(ordered_rows) = Candidates
        /\ \A a, b \in 1..Len(ordered_rows) : a < b => ordered_rows[a].y < ordered_rows[b].y

\* C16 as amended: the same rows, taken in descending-y order, each once: the
\* loop has taken the first ri - 1 of them, the highest first.
C16_CandidateRows ==
    Walking =>
        /\ ItemSet(ordered_rows) = Candidates
        /\ Len(ordered_rows) = Cardinality(Candidates)
        /\ \A a, b \in 1..Len(ordered_rows) : a < b => ordered_rows[a].y > ordered_rows[b].y
        /\ ri \in 1..(Len(ordered_rows) + 1)
        /\ FedRows \subseteq {ordered_rows[k].y : k \in 1..(ri - 1)}

\* two rows taken, the third at hand; the header row and the row above it
\* are no candidates
C16_Witness ==
    /\ ppc = "rows" /\ ri = 3 /\ Len(ordered_rows) = 3 /\ Len(rows) = 5
    /\ ordered_rows[1].y > ordered_rows[2].y /\ ordered_rows[2].y > ordered_rows[3].y


\* C7: the first row with a trailer phrase and every row behind it feed no
\* transaction, dated or not; the transaction open when that row is reached
\* is closed like any other, and is the last record if it has one amount.
C7_StopPhrase ==
    Folded =>
        /\ \A q \in StopPos..Len(ordered_rows) : ordered_rows[q].y \notin FedRows
        /\ Len(transactions) = Len(DatedPositions)
        /\ current # <<>> => transactions[Len(transactions)] = current[1]
        /\ (current # <<>> /\ OneAmount(current[1])) =>
               res_from[Len(res_from)] = Len(transactions)

C7_Witness ==
    /\ ppc = "done" /\ StopPos <= Len(ordered_rows) /\ Len(result) >= 1
    /\ \E q \in StopPos..Len(ordered_rows) : DateOfRow(q) # <<>>

\* the five labels, as the claim lists them
Labels ==
    { T(<<"D", "a", "t", "e">>),
      T(<<"T", "r", "a", "n", "s", "a", "c", "t", "i", "o", "n", " ",
          "D", "e", "s", "c", "r", "i", "p", "t", "i", "o", "n">>),
      T(<<"D", "e", "p", "o", "s", "i", "t">>),
      T(<<"W", "i", "t", "h", "d", "r", "a", "w", "a", "l">>),
      T(<<"B", "a", "l", "a", "n", "c", "e">>) }

\* the keys of the rows that hold all five labels as fragment texts
HeaderRowYs ==
    LET rs == group_text_items_into_rows(p_items)
    IN  {rs[k].y : k \in {h \in 1..Len(rs) : Labels \subseteq {t.text : t \in ItemSet(rs[h].items)}}}

\* C9: with no row holding all five labels parse returns the empty sequence;
\* with several, the topmost (the largest key) is the header.
C9_MissingHeader ==
    LET ys == HeaderRowYs
    IN  /\ (ppc = "done" /\ ys = {}) => result = <<>>
        /\ ppc = "final" => ys # {} /\ header_y = SetMax(ys)

\* C13: whenever header detection has returned anchors they are non-decreasing
\* in the column order date, description, deposit, withdrawal, balance,
\* wherever on the header row the five labels stand.
C13_AnchorsOrdered ==
    ppc \in {"rows", "final", "convert"} =>
        /\ anchors.date <= anchors.desc /\ anchors.desc <= anchors.deposit
        /\ anchors.deposit <= anchors.withdrawal /\ anchors.withdrawal <= anchors.balance

\* the row at hand has no date: no fragment at or left of the description's
\* left edge holds one
UndatedRowAtHand ==
    /\ ppc = "rows" /\ ri <= Len(ordered_rows)
    /\ \A t \in ItemSet(ordered_rows[ri].items) : ~(t.x <= desc_left /\ HasDate(t.text))

\* C20: a row without a date leaves the closed transactions and the result as
\* they are, opens no transaction, leaves the date, the deposit and the
\* withdrawal of the open transaction as they are whatever amounts the row
\* holds, and changes nothing at all when no transaction is open or the
\* row's description is empty.
C20_RowFoldingFrame ==
    [][UndatedRowAtHand =>
          /\ transactions' = transactions /\ tx_rows' = tx_rows /\ result' = result
          /\ current = <<>> => current' = <<>>
          /\ current # <<>> =>
                /\ Len(current') = 1
                /\ current'[1].date = current[1].date
                /\ current'[1].deposit = current[1].deposit
                /\ current'[1].withdrawal = current[1].withdrawal
          /\ (current = <<>> \/ DescOfRow(ri) = <<>>) => current' = current]_vars

\* a deposit whose description took in a row that holds an amount in the
\* withdrawal column: the withdrawal stays unset
C20_Witness ==
    /\ ppc = "done"
    /\ \E k \in 1..Len(transactions) :
          /\ Len(tx_rows[k]) = 2
          /\ transactions[k].description = SalaryPayment \o <<32>> \o Date1
          /\ transactions[k].deposit = Amount1500 /\ transactions[k].withdrawal = <<>>
          /\ \E t \in ItemSet(RowAt(tx_rows[k][2]).items) : IsWithdrawal(t)

\* the marker and dated rows are there, the labels are not all on one row
C9_Witness ==
    /\ ppc = "done" /\ HeaderRowYs = {} /\ rows # <<>>
    /\ \E k \in 1..Len(p_items) : p_items[k].text = LabelBalance
    /\ \E k \in 1..Len(p_items) : p_items[k].text = Date1

====
